---------------------------- MODULE Spec2Model ----------------------------
(***************************************************************************)
(* Model of scripts/consensus.py: multi-model majority voting.             *)
(*                                                                         *)
(* Every function of the module is pure.  The initial state holds a        *)
(* pending call (op and its arguments, drawn from bounded sets, pc =       *)
(* "call"); the one step of a behaviour runs the function and records its  *)
(* outcome (result, pc = "return").                                        *)
(*                                                                         *)
(* An outcome is [error |-> e, value |-> v]: e is "none" and v = <<ret>>   *)
(* when the call returns ret, e names the Python exception and v = <<>>    *)
(* when the call raises.                                                   *)
(*                                                                         *)
(* Labels (vote values) are TLA+ strings, compared only by equality, as    *)
(* the code does.  Item keys and category proposals, which the code sorts  *)
(* and normalises, are sequences of code points.                           *)
(***************************************************************************)
EXTENDS Integers, Sequences, FiniteSets, TLC

VARIABLES pc, op, votes, model_results, model_proposals, threshold, df, result

vars == <<pc, op, votes, model_results, model_proposals, threshold, df, result>>

(***************************************************************************)
(* Bounds of the model.                                                    *)
(***************************************************************************)
MaxVotes == 5
MaxEntries == 3
MaxProposals == 3
MaxThreshold == 3
MaxRows == 5

(***************************************************************************)
(* Values.                                                                 *)
(***************************************************************************)
\* Python's None object; no label of LabelSet is equal to it.
None == "None"
\* The empty string as a vote value.
EmptyStr == ""
LabelSet == {"A", "B", "C"}

\* consensus.py:12
MODELS == <<"claude", "gpt5", "gemini", "deepseek", "grok">>
ModelSet == {MODELS[i] : i \in DOMAIN MODELS}

\* The flag glyphs of consensus.py:33, 35, 37 (green, yellow, red circle).
GREEN == "green"
YELLOW == "yellow"
RED == "red"

Raise(e) == [error |-> e, value |-> <<>>]
Return(v) == [error |-> "none", value |-> <<v>>]

(***************************************************************************)
(* calculate_consensus (consensus.py:14-39)                                *)
(***************************************************************************)
\* collections.Counter(votes): the counts as <<label, count>> pairs in the
\* order of first occurrence (a dict keeps insertion order).
RECURSIVE Counter(_)
Counter(vs) ==
    IF vs = <<>> THEN <<>>
    ELSE LET prev == Counter(SubSeq(vs, 1, Len(vs) - 1))
             v == vs[Len(vs)]
             at == {i \in DOMAIN prev : prev[i][1] = v}
         IN IF at = {} THEN Append(prev, <<v, 1>>)
            ELSE [i \in DOMAIN prev |->
                    IF i \in at THEN <<v, prev[i][2] + 1>> ELSE prev[i]]

\* A slip: the last of the entries with the greatest count wins.
most_common_1_last(vote_counts) ==
    IF vote_counts = <<>> THEN <<>>
    ELSE LET i == CHOOSE i \in DOMAIN vote_counts :
                    /\ \A j \in DOMAIN vote_counts :
                          vote_counts[j][2] <= vote_counts[i][2]
                    /\ \A j \in DOMAIN vote_counts :
                          j > i => vote_counts[j][2] < vote_counts[i][2]
         IN <<vote_counts[i]>>

\* A slip: the first entry is taken whatever its count.
most_common_1_first_key(vote_counts) ==
    IF vote_counts = <<>> THEN <<>> ELSE <<vote_counts[1]>>

\* Counter.most_common(1): heapq.nlargest(1, items, key=count), which is
\* max(items, key=count): the first entry, in iteration order, among those
\* with the greatest count; the empty list for an empty counter.
most_common_1(vote_counts) ==
    IF vote_counts = <<>> THEN <<>>
    ELSE LET i == CHOOSE i \in DOMAIN vote_counts :
                    /\ \A j \in DOMAIN vote_counts :
                          vote_counts[j][2] <= vote_counts[i][2]
                    /\ \A j \in DOMAIN vote_counts :
                          j < i => vote_counts[j][2] < vote_counts[i][2]
         IN <<vote_counts[i]>>

\* f"{agreement_count}/{len(votes)}"
AgreementRatio(agreement_count, n) ==
    ToString(agreement_count) \o "/" \o ToString(n)

\* A slip: the thresholds rescaled to the number of votes cast.
FlagProportional(agreement_count, n) ==
    IF agreement_count * 5 >= 4 * n THEN GREEN
    ELSE IF agreement_count * 5 >= 3 * n THEN YELLOW
    ELSE RED

\* consensus.py:32-37.  n, the number of votes, is in scope there and unused.
Flag(agreement_count, n) ==
    IF agreement_count >= 4 THEN GREEN
    ELSE IF agreement_count = 3 THEN YELLOW
    ELSE RED

\* The outcome of calculate_consensus(votes): most_common(1)[0] on the empty
\* list raises IndexError.
calculate_consensus(vs) ==
    LET vote_counts == Counter(vs)
        top == most_common_1(vote_counts)
    IN IF top = <<>> THEN Raise("IndexError")
       ELSE LET most_common == top[1]
                consensus_value == most_common[1]
                agreement_count == most_common[2]
            IN Return(<<consensus_value,
                        AgreementRatio(agreement_count, Len(vs)),
                        Flag(agreement_count, Len(vs))>>)

(***************************************************************************)
(* Strings that are ordered: sequences of code points.                     *)
(***************************************************************************)
\* Python's str comparison: code point by code point, a proper prefix first.
RECURSIVE StrLess(_, _)
StrLess(a, b) ==
    IF b = <<>> THEN FALSE
    ELSE IF a = <<>> THEN TRUE
    ELSE IF a[1] # b[1] THEN a[1] < b[1]
    ELSE StrLess(Tail(a), Tail(b))

\* xs with x inserted after its last element that is not greater than x.
Insert(xs, x) ==
    LET k == Cardinality({i \in DOMAIN xs : ~StrLess(x, xs[i])})
    IN SubSeq(xs, 1, k) \o <<x>> \o SubSeq(xs, k + 1, Len(xs))

\* sorted(xs): the strings of the iterable xs in ascending order (stable).
RECURSIVE sorted(_)
sorted(xs) ==
    IF xs = <<>> THEN <<>>
    ELSE Insert(sorted(SubSeq(xs, 1, Len(xs) - 1)), xs[Len(xs)])

\* The order in which a Python set S is iterated: some enumeration of S
\* (which one does not matter to sorted, S holding no string twice).
SetOrder(S) ==
    CHOOSE xs \in [1..Cardinality(S) -> S] : {xs[i] : i \in DOMAIN xs} = S

(***************************************************************************)
(* aggregate_phase2_results, aggregate_phase3_results                      *)
(* (consensus.py:42-80, 83-121)                                            *)
(*                                                                         *)
(* model_results is a function from the source names present to functions *)
(* from the item keys present to vote values.                              *)
(***************************************************************************)
\* consensus.py:53-55, 94-96: the union of every source's keys.
AllItems(mr) == UNION {DOMAIN mr[m] : m \in DOMAIN mr}

\* consensus.py:63, 104: the test that makes a source's entry a vote.
HasEntry(mr, model, item) == model \in DOMAIN mr /\ item \in DOMAIN mr[model]

\* consensus.py:59-68, 100-109: the votes list of one item, in MODELS order.
ItemVotes(mr, item) ==
    LET voters == SelectSeq(MODELS, LAMBDA m : HasEntry(mr, m, item))
    IN [i \in DOMAIN voters |-> mr[voters[i]][item]]

\* consensus.py:60-68, 101-109: the model_votes dict of one item.
ModelVotes(mr, item) ==
    [m \in ModelSet |-> IF HasEntry(mr, m, item) THEN mr[m][item] ELSE None]

\* consensus.py:70-78: the rows (none or one) appended for one trait.
Phase2Rows(mr, trait) ==
    LET vs == ItemVotes(mr, trait)
    IN IF vs = <<>> THEN <<>>
       ELSE LET verdict == calculate_consensus(vs).value[1]
            IN << ("trait" :> trait) @@ ("umbrella" :> verdict[1])
                  @@ ("agreement" :> verdict[2]) @@ ("flag" :> verdict[3])
                  @@ ModelVotes(mr, trait) >>

\* consensus.py:111-119: the rows (none or one) appended for one umbrella.
Phase3Rows(mr, umbrella) ==
    LET vs == ItemVotes(mr, umbrella)
    IN IF vs = <<>> THEN <<>>
       ELSE LET verdict == calculate_consensus(vs).value[1]
            IN << ("umbrella" :> umbrella) @@ ("final_category" :> verdict[1])
                  @@ ("agreement" :> verdict[2]) @@ ("flag" :> verdict[3])
                  @@ ModelVotes(mr, umbrella) >>

\* The calls of calculate_consensus an aggregation makes that raise.
RaisedBy(mr) ==
    {calculate_consensus(ItemVotes(mr, item)).error :
        item \in {x \in AllItems(mr) : ItemVotes(mr, x) # <<>>}} \ {"none"}

RECURSIVE Phase2Loop(_, _)
Phase2Loop(mr, order) ==
    IF order = <<>> THEN <<>>
    ELSE Phase2Rows(mr, Head(order)) \o Phase2Loop(mr, Tail(order))

RECURSIVE Phase3Loop(_, _)
Phase3Loop(mr, order) ==
    IF order = <<>> THEN <<>>
    ELSE Phase3Rows(mr, Head(order)) \o Phase3Loop(mr, Tail(order))

\* The outcome of aggregate_phase2_results(model_results): the rows of the
\* data frame, in order.
aggregate_phase2_results(mr) ==
    IF RaisedBy(mr) # {} THEN Raise(CHOOSE e \in RaisedBy(mr) : TRUE)
    ELSE Return(Phase2Loop(mr, sorted(SetOrder(AllItems(mr)))))

\* The outcome of aggregate_phase3_results(model_results).
aggregate_phase3_results(mr) ==
    IF RaisedBy(mr) # {} THEN Raise(CHOOSE e \in RaisedBy(mr) : TRUE)
    ELSE Return(Phase3Loop(mr, sorted(SetOrder(AllItems(mr)))))

(***************************************************************************)
(* merge_umbrella_proposals (consensus.py:124-148)                         *)
(*                                                                         *)
(* model_proposals is the sequence, in the dict's iteration order, of its  *)
(* items [model |-> name, categories |-> list of strings].                 *)
(***************************************************************************)
\* str.lower() on the code points of the model's alphabet (ASCII).
lower(s) == [i \in DOMAIN s |-> IF s[i] \in 65..90 THEN s[i] + 32 ELSE s[i]]

\* The ASCII code points str.strip() removes (str.isspace).
Whitespace == (9..13) \cup (28..32)

RECURSIVE lstrip(_)
lstrip(s) ==
    IF s # <<>> /\ Head(s) \in Whitespace THEN lstrip(Tail(s)) ELSE s

RECURSIVE rstrip(_)
rstrip(s) ==
    IF s # <<>> /\ s[Len(s)] \in Whitespace
    THEN rstrip(SubSeq(s, 1, Len(s) - 1)) ELSE s

\* str.strip()
strip(s) == rstrip(lstrip(s))

\* consensus.py:141
normalized(cat) == strip(lower(cat))

\* consensus.py:138-142: the normalized proposals in the order the two
\* loops meet them.
RECURSIVE NormalizedProposals(_)
NormalizedProposals(mp) ==
    IF mp = <<>> THEN <<>>
    ELSE LET cats == Head(mp).categories
         IN [i \in DOMAIN cats |-> normalized(cats[i])]
            \o NormalizedProposals(Tail(mp))

\* A slip: a source's repeated proposals are counted once.
RECURSIVE NormalizedProposalsOncePerSource(_)
NormalizedProposalsOncePerSource(mp) ==
    IF mp = <<>> THEN <<>>
    ELSE LET cats == Head(mp).categories
             norm == [i \in DOMAIN cats |-> normalized(cats[i])]
             firsts == {i \in DOMAIN norm : \A j \in 1..(i - 1) : norm[j] # norm[i]}
             once == SelectSeq([i \in DOMAIN norm |-> <<i, norm[i]>>],
                               LAMBDA x : x[1] \in firsts)
         IN [i \in DOMAIN once |-> once[i][2]]
            \o NormalizedProposalsOncePerSource(Tail(mp))

merge_umbrella_proposals_once_per_source(mp, th) ==
    LET category_counts == Counter(NormalizedProposalsOncePerSource(mp))
        kept == SelectSeq(category_counts, LAMBDA item : item[2] >= th)
    IN Return(sorted([i \in DOMAIN kept |-> kept[i][1]]))

\* The outcome of merge_umbrella_proposals(model_proposals, threshold).
merge_umbrella_proposals(mp, th) ==
    LET category_counts == Counter(NormalizedProposals(mp))
        kept == SelectSeq(category_counts, LAMBDA item : item[2] >= th)
        unified == [i \in DOMAIN kept |-> kept[i][1]]
    IN Return(sorted(unified))

(***************************************************************************)
(* generate_summary_stats (consensus.py:151-175)                           *)
(*                                                                         *)
(* df is [has_flag_column |-> whether the frame has the flag column,       *)
(* flags |-> the values of that column, row by row].  Percentages are in   *)
(* tenths of a percent: 333 is 33.3.                                       *)
(***************************************************************************)
\* len(df[df[flag_column] == glyph])
CountFlag(flags, glyph) == Cardinality({i \in DOMAIN flags : flags[i] = glyph})

\* round(count / total * 100, 1) for total > 0, in tenths: the tenth nearest
\* to the quotient.  Where the exact quotient lies halfway between two
\* tenths the float computed for it may lie on either side, and either
\* tenth may come out.
RoundPct(count, total) ==
    LET q == (count * 1000) \div total
        r == (count * 1000) % total
    IN IF 2 * r < total THEN {q}
       ELSE IF 2 * r > total THEN {q + 1}
       ELSE {q, q + 1}

Stats(total, green, green_pct, yellow, yellow_pct, red, red_pct) ==
    [total |-> total,
     green |-> green, green_pct |-> green_pct,
     yellow |-> yellow, yellow_pct |-> yellow_pct,
     red |-> red, red_pct |-> red_pct]

\* A slip: an empty frame is given zero percentages.
generate_summary_stats_zero_default(frame) ==
    LET total == Len(frame.flags)
        green == CountFlag(frame.flags, GREEN)
        yellow == CountFlag(frame.flags, YELLOW)
        red == CountFlag(frame.flags, RED)
    IN IF total = 0 THEN {Return(Stats(0, 0, 0, 0, 0, 0, 0))}
       ELSE {Return(Stats(total, green, gp, yellow, yp, red, rp)) :
                <<gp, yp, rp>> \in RoundPct(green, total)
                   \X RoundPct(yellow, total) \X RoundPct(red, total)}

\* A slip: the yellow count compares with the green glyph.
generate_summary_stats_wrong_glyph(frame) ==
    LET total == Len(frame.flags)
        green == CountFlag(frame.flags, GREEN)
        yellow == CountFlag(frame.flags, GREEN)
        red == CountFlag(frame.flags, RED)
    IN IF ~frame.has_flag_column THEN {Raise("KeyError")}
       ELSE IF total = 0 THEN {Raise("ZeroDivisionError")}
       ELSE {Return(Stats(total, green, gp, yellow, yp, red, rp)) :
                <<gp, yp, rp>> \in RoundPct(green, total)
                   \X RoundPct(yellow, total) \X RoundPct(red, total)}

\* The outcomes generate_summary_stats(df) can have.  Selecting a column the
\* frame lacks raises KeyError (line 163); dividing by a total of 0 raises
\* ZeroDivisionError (line 170).
generate_summary_stats(frame) ==
    LET total == Len(frame.flags)
        green == CountFlag(frame.flags, GREEN)
        yellow == CountFlag(frame.flags, YELLOW)
        red == CountFlag(frame.flags, RED)
    IN IF ~frame.has_flag_column THEN {Raise("KeyError")}
       ELSE IF total = 0 THEN {Raise("ZeroDivisionError")}
       ELSE {Return(Stats(total, green, gp, yellow, yp, red, rp)) :
                <<gp, yp, rp>> \in RoundPct(green, total)
                   \X RoundPct(yellow, total) \X RoundPct(red, total)}

(***************************************************************************)
(* The driver.                                                             *)
(***************************************************************************)
NoResult == [error |-> "none", value |-> <<>>]

SeqsUpTo(S, n) == UNION {[1..k -> S] : k \in 0..n}

InitConsensus ==
    /\ pc = "call"
    /\ op = "calculate_consensus"
    /\ votes \in SeqsUpTo(LabelSet, MaxVotes)
    /\ model_results = <<>>
    /\ model_proposals = <<>>
    /\ threshold = 3
    /\ df = <<>>
    /\ result = NoResult

CallCalculateConsensus ==
    /\ pc = "call"
    /\ op = "calculate_consensus"
    /\ result' = calculate_consensus(votes)
    /\ pc' = "return"
    /\ UNCHANGED <<op, votes, model_results, model_proposals, threshold, df>>

NextConsensus == CallCalculateConsensus

SpecConsensus == InitConsensus /\ [][NextConsensus]_vars

\* The sources of a model_results mapping: the panel and one source that
\* is not a member of it.
SourceSet == ModelSet \cup {"human"}
\* Item keys: "B", "a", "ab".
ItemSet == {<<66>>, <<97>>, <<97, 98>>}
\* Vote values as parsed from the sources' output: labels, "" and None.
ValueSet == {"A", "B", EmptyStr, None}

\* The mapping holding exactly the entries e, a function from
\* <<source, item>> pairs to values.
ToModelResults(e) ==
    [src \in {x[1] : x \in DOMAIN e} |->
        [item \in {x[2] : x \in {y \in DOMAIN e : y[1] = src}} |->
            e[<<src, item>>]]]

InitAggregate ==
    /\ pc = "call"
    /\ op \in {"aggregate_phase2_results", "aggregate_phase3_results"}
    /\ votes = <<>>
    /\ \E S \in SUBSET (SourceSet \X ItemSet) :
          /\ Cardinality(S) <= MaxEntries
          /\ \E e \in [S -> ValueSet] : model_results = ToModelResults(e)
    /\ model_proposals = <<>>
    /\ threshold = 3
    /\ df = <<>>
    /\ result = NoResult

CallAggregatePhase2Results ==
    /\ pc = "call"
    /\ op = "aggregate_phase2_results"
    /\ result' = aggregate_phase2_results(model_results)
    /\ pc' = "return"
    /\ UNCHANGED <<op, votes, model_results, model_proposals, threshold, df>>

CallAggregatePhase3Results ==
    /\ pc = "call"
    /\ op = "aggregate_phase3_results"
    /\ result' = aggregate_phase3_results(model_results)
    /\ pc' = "return"
    /\ UNCHANGED <<op, votes, model_results, model_proposals, threshold, df>>

NextAggregate == CallAggregatePhase2Results \/ CallAggregatePhase3Results

SpecAggregate == InitAggregate /\ [][NextAggregate]_vars

\* Raw category proposals: "A", "a ", " B", "a b", " ".
RawCategorySet ==
    {<<65>>, <<97, 32>>, <<32, 66>>, <<97, 32, 98>>, <<32>>}
\* The sources that may hold proposals, in the order they are inserted.
ProposalSources == <<"claude", "gpt5", "gemini">>

\* The proposals flat, shared out in order among n sources: source i holds
\* flat[cut[i-1]+1 .. cut[i]], with cut[0] = 0 and cut[n] = Len(flat).
SharedOut(flat, n, cut) ==
    [i \in 1..n |->
        [model |-> ProposalSources[i],
         categories |-> SubSeq(flat, IF i = 1 THEN 1 ELSE cut[i - 1] + 1,
                                     IF i = n THEN Len(flat) ELSE cut[i])]]

InitMerge ==
    /\ pc = "call"
    /\ op = "merge_umbrella_proposals"
    /\ votes = <<>>
    /\ model_results = <<>>
    /\ \E flat \in SeqsUpTo(RawCategorySet, MaxProposals) :
          \E n \in 0..Len(ProposalSources) :
             \E cut \in [1..(n - 1) -> 0..Len(flat)] :
                /\ n = 0 => flat = <<>>
                /\ \A i \in 1..(n - 2) : cut[i] <= cut[i + 1]
                /\ model_proposals = SharedOut(flat, n, cut)
    /\ threshold \in 0..MaxThreshold
    /\ df = <<>>
    /\ result = NoResult

CallMergeUmbrellaProposals ==
    /\ pc = "call"
    /\ op = "merge_umbrella_proposals"
    /\ result' = merge_umbrella_proposals(model_proposals, threshold)
    /\ pc' = "return"
    /\ UNCHANGED <<op, votes, model_results, model_proposals, threshold, df>>

NextMerge == CallMergeUmbrellaProposals

SpecMerge == InitMerge /\ [][NextMerge]_vars

\* The flag column of a verdict collection holds the three glyphs.
FlagSet == {GREEN, YELLOW, RED}

\* The frames a summary is asked of: the frame of a non-empty collection
\* has the flag column; an empty frame has it or, built from no rows
\* (pd.DataFrame([]), lines 80 and 121), has no column at all.
FrameInputs ==
    {[has_flag_column |-> TRUE, flags |-> fs] :
        fs \in SeqsUpTo(FlagSet, MaxRows)}
    \cup {[has_flag_column |-> FALSE, flags |-> <<>>]}

InitSummary ==
    /\ pc = "call"
    /\ op = "generate_summary_stats"
    /\ votes = <<>>
    /\ model_results = <<>>
    /\ model_proposals = <<>>
    /\ threshold = 3
    /\ df \in FrameInputs
    /\ result = NoResult

CallGenerateSummaryStats ==
    /\ pc = "call"
    /\ op = "generate_summary_stats"
    /\ result' \in generate_summary_stats(df)
    /\ pc' = "return"
    /\ UNCHANGED <<op, votes, model_results, model_proposals, threshold, df>>

NextSummary == CallGenerateSummaryStats

SpecSummary == InitSummary /\ [][NextSummary]_vars

(***************************************************************************)
(* Every call together.                                                    *)
(***************************************************************************)
Init == InitConsensus \/ InitAggregate \/ InitMerge \/ InitSummary

Next ==
    \/ CallCalculateConsensus
    \/ CallAggregatePhase2Results
    \/ CallAggregatePhase3Results
    \/ CallMergeUmbrellaProposals
    \/ CallGenerateSummaryStats

Spec == Init /\ [][Next]_vars

(***************************************************************************)
(* Properties of calculate_consensus.                                      *)
(***************************************************************************)
Returned(f) == pc = "return" /\ op = f

\* The number of votes of vs cast for label l.
Occ(vs, l) == Cardinality({i \in DOMAIN vs : vs[i] = l})
\* The greatest number of votes any label of vs received.
MaxOcc(vs) == CHOOSE c \in 0..Len(vs) :
                 /\ \A i \in DOMAIN vs : Occ(vs, vs[i]) <= c
                 /\ vs = <<>> \/ \E i \in DOMAIN vs : Occ(vs, vs[i]) = c
\* The position of the first vote of vs cast for label l.
FirstIndex(vs, l) == CHOOSE i \in DOMAIN vs :
                        vs[i] = l /\ \A j \in 1..(i - 1) : vs[j] # l

\* C1: for a non-empty vote list, calculate_consensus returns; the numerator
\* of the ratio it reports is the greatest occurrence count of any label of
\* the list (the denominator is the number of votes), and the label it
\* returns occurs that many times.
C1_PluralityCount ==
    (Returned("calculate_consensus") /\ votes # <<>>) =>
        /\ result.error = "none"
        /\ result.value[1][2] =
              ToString(MaxOcc(votes)) \o "/" \o ToString(Len(votes))
        /\ Occ(votes, result.value[1][1]) = MaxOcc(votes)

\* C1 witness: the plurality label is not the first label of the list.
C1_Witness ==
    /\ Returned("calculate_consensus")
    /\ votes = <<"A", "B", "C", "B">>
    /\ result = Return(<<"B", "2/4", RED>>)

\* C2: when several labels share the greatest count, the label returned is
\* the one among them whose first occurrence is earliest in the vote list.
C2_TieFirstOccurrence ==
    (Returned("calculate_consensus") /\ votes # <<>>) =>
        /\ result.error = "none"
        /\ \A i \in DOMAIN votes :
              Occ(votes, votes[i]) = MaxOcc(votes) =>
                  FirstIndex(votes, result.value[1][1])
                      <= FirstIndex(votes, votes[i])

\* C2 witness: votes B,A,A,B,C (A and B tied at 2) resolve to B, which is
\* neither the alphabetically smallest nor the last seen of the tied labels.
C2_Witness ==
    /\ Returned("calculate_consensus")
    /\ votes = <<"B", "A", "A", "B", "C">>
    /\ result = Return(<<"B", "2/5", RED>>)

\* The tier the thresholds give to an agreement count.
TierOfCount(c) == IF c >= 4 THEN GREEN ELSE IF c = 3 THEN YELLOW ELSE RED

\* C3: the flag returned is decided by the absolute agreement count alone
\* (>= 4 green, 3 yellow, <= 2 red), whatever the number of votes: three
\* identical votes give yellow, one or two identical votes give red.
C3_TierByAbsoluteCount ==
    (Returned("calculate_consensus") /\ votes # <<>>) =>
        /\ result.error = "none"
        /\ result.value[1][3] = TierOfCount(Occ(votes, result.value[1][1]))
        /\ (Len(votes) = 3 /\ MaxOcc(votes) = 3) => result.value[1][3] = YELLOW
        /\ (Len(votes) \in {1, 2} /\ MaxOcc(votes) = Len(votes))
              => result.value[1][3] = RED

\* C3 witness: a unanimous list of three votes is flagged yellow.
C3_Witness ==
    /\ Returned("calculate_consensus")
    /\ votes = <<"A", "A", "A">>
    /\ result = Return(<<"A", "3/3", YELLOW>>)

\* C4 (as claimed): an empty vote list fails with an explicit "no votes"
\* error and returns no verdict.
C4_ExplicitNoVotesError ==
    (Returned("calculate_consensus") /\ votes = <<>>) =>
        /\ result.error = "NoVotesError"
        /\ result.value = <<>>

(***************************************************************************)
(* Properties of the phase aggregators.                                    *)
(***************************************************************************)
Aggregated ==
    Returned("aggregate_phase2_results") \/ Returned("aggregate_phase3_results")

\* The item key and the consensus label of a row of the returned frame.
RowItem(row) ==
    IF op = "aggregate_phase2_results" THEN row["trait"] ELSE row["umbrella"]
RowConsensus(row) ==
    IF op = "aggregate_phase2_results" THEN row["umbrella"]
    ELSE row["final_category"]

\* A present vote in the sense of the specification: an entry of a panel
\* source whose value is neither None nor the empty string.
PresentVoters(mr, item) ==
    {m \in ModelSet : HasEntry(mr, m, item) /\ mr[m][item] \notin {None, EmptyStr}}

\* C5 (as claimed): the frame returned holds exactly one row for each item
\* key of any source's mapping that has at least one present vote, no row
\* for any other key, and its rows are in strictly ascending order of key.
C5_OneRowPerVotedItem ==
    Aggregated =>
        /\ result.error = "none"
        /\ LET rows == result.value[1]
           IN /\ {RowItem(rows[i]) : i \in DOMAIN rows} =
                    {item \in AllItems(model_results) :
                        PresentVoters(model_results, item) # {}}
              /\ \A i, j \in DOMAIN rows :
                    i < j => StrLess(RowItem(rows[i]), RowItem(rows[j]))

\* C6 (as claimed): an entry whose value is None or "" is no vote: it is
\* not counted in the denominator of a row's ratio, it is never the
\* consensus label of a row, and an item all of whose entries are None or
\* "" has no row.
C6_NullEntryIsNoVote ==
    Aggregated =>
        /\ result.error = "none"
        /\ LET rows == result.value[1]
           IN /\ \A i \in DOMAIN rows :
                    /\ RowConsensus(rows[i]) \notin {None, EmptyStr}
                    /\ \E c \in 0..Len(MODELS) :
                          rows[i]["agreement"] = ToString(c) \o "/" \o
                            ToString(Cardinality(
                               PresentVoters(model_results, RowItem(rows[i]))))
              /\ \A item \in AllItems(model_results) :
                    PresentVoters(model_results, item) = {} =>
                        \A i \in DOMAIN rows : RowItem(rows[i]) # item

\* C7 (as claimed): in every row the ratio is "c/n", n the number of panel
\* sources that voted on the item and c the number of panel sources whose
\* column equals the row's consensus label; a panel source's column holds
\* its vote, and holds None exactly when the source did not vote.  A source
\* is taken to have voted when it has an entry for the item.
C7_RatioMatchesSnapshot ==
    Aggregated =>
        /\ result.error = "none"
        /\ LET rows == result.value[1]
           IN \A i \in DOMAIN rows :
                 LET row == rows[i]
                     item == RowItem(row)
                     n == Cardinality({m \in ModelSet :
                                          HasEntry(model_results, m, item)})
                     c == Cardinality({m \in ModelSet :
                                          row[m] = RowConsensus(row)})
                 IN /\ row["agreement"] = ToString(c) \o "/" \o ToString(n)
                    /\ \A m \in ModelSet :
                          /\ HasEntry(model_results, m, item)
                                => row[m] = model_results[m][item]
                          /\ row[m] = None
                                <=> ~HasEntry(model_results, m, item)

(***************************************************************************)
(* Properties of merge_umbrella_proposals.                                 *)
(***************************************************************************)
\* The places <<i, j>> of the proposals of mp: proposal j of item i.
Places(mp) ==
    UNION {{<<i, j>> : j \in DOMAIN mp[i].categories} : i \in DOMAIN mp}

\* A string lower-cased and trimmed: the lower case of what lies between
\* its first and its last code point that is not whitespace.
LowerTrimmed(s) ==
    LET solid == {i \in DOMAIN s : s[i] \notin Whitespace}
    IN IF solid = {} THEN <<>>
       ELSE LET a == CHOOSE i \in solid : \A j \in solid : i <= j
                b == CHOOSE i \in solid : \A j \in solid : j <= i
            IN [i \in 1..(b - a + 1) |->
                  IF s[a + i - 1] \in 65..90 THEN s[a + i - 1] + 32
                  ELSE s[a + i - 1]]

\* How many proposals of mp, over all sources, normalise to n.
TotalCount(mp, n) ==
    Cardinality({x \in Places(mp) :
                    LowerTrimmed(mp[x[1]].categories[x[2]]) = n})

\* The rearrangements of a sequence.
Rearranged(xs) ==
    {[i \in DOMAIN xs |-> xs[f[i]]] : f \in Permutations(DOMAIN xs)}

\* mp with the proposals of each of its items rearranged.
RECURSIVE ListsRearranged(_)
ListsRearranged(mp) ==
    IF mp = <<>> THEN {<<>>}
    ELSE {<<[model |-> Head(mp).model, categories |-> c]>> \o rest :
             c \in Rearranged(Head(mp).categories),
             rest \in ListsRearranged(Tail(mp))}

\* mp in every iteration order of its items and of their lists.
Reorderings(mp) == UNION {Rearranged(x) : x \in ListsRearranged(mp)}

C9_EmptyCollectionFails ==
    (Returned("generate_summary_stats") /\ df.flags = <<>>) =>
        /\ result.error # "none"
        /\ result.value = <<>>

\* C9 witness: an empty frame that has the flag column: the division by the
\* total is reached and raises.
C9_Witness ==
    /\ Returned("generate_summary_stats")
    /\ df = [has_flag_column |-> TRUE, flags |-> <<>>]
    /\ result = Raise("ZeroDivisionError")

Abs(x) == IF x < 0 THEN -x ELSE x

\* C10: on a non-empty collection generate_summary_stats returns; the three
\* tier counts sum to the total, each percentage is its count's share of
\* the total rounded to one decimal, and the three percentages sum to
\* 100.0 within 0.1 per tier.
C10_PercentagesSumTo100 ==
    (Returned("generate_summary_stats") /\ df.flags # <<>>) =>
        /\ result.error = "none"
        /\ LET st == result.value[1]
           IN /\ st.total = Len(df.flags)
              /\ st.green + st.yellow + st.red = st.total
              /\ \A x \in {<<st.green, st.green_pct>>,
                           <<st.yellow, st.yellow_pct>>,
                           <<st.red, st.red_pct>>} :
                    2 * Abs(x[2] * st.total - 1000 * x[1]) <= st.total
              /\ Abs(st.green_pct + st.yellow_pct + st.red_pct - 1000) <= 3

\* C10 witness: one row of each tier: 33.3 + 33.3 + 33.3 = 99.9.
C10_Witness ==
    /\ Returned("generate_summary_stats")
    /\ df.flags = <<GREEN, YELLOW, RED>>
    /\ result = Return(Stats(3, 1, 333, 1, 333, 1, 333))

=============================================================================
